---- MODULE Spec2Model ----
(***************************************************************************)
(* gateway-go: the task store, the upload/status/report/download handlers, *)
(* the bounded task queue and the worker (simulated build and grpc build). *)
(***************************************************************************)
EXTENDS Integers, Sequences, FiniteSets, TLC

\* ---------------------------------------------------------------- bounds
MaxTasks == 2      \* number of upload requests explored
QueueCap == 1      \* capacity of the tasks channel explored
ClockStep == 15    \* seconds of wall clock per Tick
MaxFaults == 2     \* collaborator and disk failures explored per run
BreakerThreshold == 1  \* failed Inference calls in a row explored (N)

\* ---------------------------------------------------- program constants
ParentTimeoutSec == 45
CallTimeoutSec == 25
SimFirstProgress == 50
SimLastProgress == 90
SimProgressStep == 10
ResultChanCap == 1

Ids == 1..MaxTasks

VARIABLES
    build,        \* "sim" | "grpc": which Worker the build tag selects
    tasks,        \* Store.tasks: id -> Task
    queue,        \* the tasks channel (buffered)
    bg,           \* ids held by `go func() { tasks <- id }()`
    upc,          \* per upload request: position in UploadHandler ("sent" and
                  \* "spawned": returned 202 after the send / after the go)
    wpc,          \* position of the worker goroutine
    wid,          \* id the worker is processing (0: none)
    simP,         \* loop variable p of the simulated worker
    elapsed,      \* seconds since the 45s fan-out context was created
    started,      \* value of elapsed when the two branches were started
    brAudit,      \* AuditRules goroutine: "none" | "running" | "done"
    brSem,        \* AnalyzeSemantics goroutine
    chAudit,      \* chAudit (buffer 1)
    chSem,        \* chSem (buffer 1)
    auditResp,    \* auditResp.Issues
    semResp,      \* semResp.Issues
    annotatedFiles, \* ids whose annotated copy exists on disk
    reportFiles,  \* id -> issues of the report written to disk
    logs,         \* id -> set of failures the worker logged for the task
    sent,         \* id -> number of sends of id on the tasks channel
    recv,         \* id -> number of receives of id by the worker
    faults,       \* number of collaborator and disk failures so far
    resp,         \* the HTTP response written by the last step, if any
    rd            \* a StatusHandler between GetTask and the end of c.JSON:
                  \* the task it holds and the field values it has read

vars == <<build, tasks, queue, bg, upc, wpc, wid, simP, elapsed, started,
          brAudit, brSem, chAudit, chSem, auditResp, semResp,
          annotatedFiles, reportFiles, logs, sent, recv, faults, resp, rd>>

chanVars == <<queue, sent, recv>>
uploadVars == <<bg, upc>>
ctlVars == <<wpc, wid, simP>>
fanVars == <<elapsed, started, brAudit, brSem, chAudit, chSem, auditResp,
             semResp>>
diskVars == <<annotatedFiles, reportFiles>>
envVars == <<logs, faults>>

\* ------------------------------------------------------------ data types
NoPath == << >>

SourcePathOf(id) == <<"..", "temp_docs", id, ".docx">>

GrpcAnnotatedPath(src) == src \o <<"-annotated.docx">>

GrpcReportPath(src) == src \o <<"-report.json">>

SimAnnotatedPath(id) == <<"..", "temp_docs", id, "-annotated.docx">>

SimReportPath(id) == <<"..", "temp_docs", id, "-report.json">>

NewTask(id) ==
    [id |-> id, status |-> "Pending", progress |-> 0,
     source_path |-> SourcePathOf(id),
     annotated_path |-> NoPath, report_path |-> NoPath]

ErrorStatuses ==
    {"Error: parser connect", "Error: parse",
     "Error: engine connect", "Error: inference connect"}

IsError(s) == s \in ErrorStatuses

IsTerminal(s) == s = "Completed" \/ IsError(s)

Issue(sec, code, sev) == [section_id |-> sec, code |-> code, severity |-> sev]

\* what the RuleEngine and the Inference service answer when they answer
AuditResponses ==
    { << Issue(3, "ERR_A", "INFO"), Issue(1, "ERR_B", "INFO"),
         Issue(2, "ERR_FONT_001", "MEDIUM") >> }

SemResponses ==
    { << Issue(2, "ERR_FONT_001", "CRITICAL") >> }

\* no HTTP response was written in the step
NoResp == [op |-> "none", code |-> 0, body |-> "none"]

\* no StatusHandler holds a task
NoRead == [id |-> 0, got |-> << >>, at |-> {}]

\* the fields of Task that change after AddTask, in the order of the
\* struct, which is the order in which c.JSON reads them
TaskFields == <<"status", "progress", "annotated_path", "report_path">>

\* ------------------------------------------------------------ the store
AddTask_Skip(s, t) == s

AddTask(s, t) == (t.id :> t) @@ s

HasTask(s, id) == id \in DOMAIN s

\* GetTask returns (t, ok); t is nil for an unknown id
NilTask == "nil"

GetTask(s, id) ==
    IF id \in DOMAIN s THEN [task |-> s[id], ok |-> TRUE]
    ELSE [task |-> NilTask, ok |-> FALSE]

\* fn is given by the fields it assigns, or by what it adds to Progress
Apply_Lost(fn, t) == t

Apply(fn, t) ==
    IF "progress_add" \in DOMAIN fn
    THEN [t EXCEPT !.progress = @ + fn.progress_add]
    ELSE fn @@ t

UpdateTask_Twice(s, id, fn) ==
    IF id \in DOMAIN s THEN [s EXCEPT ![id] = Apply(fn, Apply(fn, s[id]))]
    ELSE s

UpdateTask(s, id, fn) ==
    IF id \in DOMAIN s THEN [s EXCEPT ![id] = Apply(fn, s[id])] ELSE s

\* the mutations the callers pass to UpdateTask
MarkQueued == [status |-> "Queued"]

GrpcMarkParsing == [status |-> "Parsing", progress |-> 5]

MarkParserConnectError_Parse == [status |-> "Error: parse"]

MarkParserConnectError == [status |-> "Error: parser connect"]

MarkParseError == [status |-> "Error: parse"]

MarkAuditing_Low == [status |-> "Auditing", progress |-> 4]

MarkAuditing == [status |-> "Auditing", progress |-> 40]

MarkEngineConnectError_Reset ==
    [status |-> "Error: engine connect", progress |-> 0]

MarkEngineConnectError == [status |-> "Error: engine connect"]

MarkInferenceConnectError == [status |-> "Error: inference connect"]

SimMarkParsing == [status |-> "Parsing", progress |-> 10]

SetProgress_WithReport(p) ==
    [progress |-> p, report_path |-> <<"..", "temp_docs", "report.json">>]

SetProgress(p) == [progress |-> p]

MarkCompleted_NoProgress(annotated, report) ==
    [annotated_path |-> annotated, report_path |-> report,
     status |-> "Completed"]

MarkCompleted(annotated, report) ==
    [annotated_path |-> annotated, report_path |-> report,
     status |-> "Completed", progress |-> 100]

\* ------------------------------------------------------------- channels
ChanSend_Drop(q, x) == q

ChanSend(q, x) == Append(q, x)

CanSend(q, cap) == Len(q) < cap

\* the error path of a branch: chAudit <- &AuditResponse{} (no issues)
SendDegraded_Missing(ch) == ch

SendDegraded(ch) == ChanSend(ch, << >>)

Aggregate(a, b) == a \o b

\* ---------------------------------------------------------------- Init
InitOver(ids) ==
    /\ build \in {"sim", "grpc"}
    /\ tasks = << >>
    /\ queue = << >>
    /\ bg = {}
    /\ upc = [i \in ids |-> "new"]
    /\ wpc = "idle"
    /\ wid = 0
    /\ simP = 0
    /\ elapsed = 0
    /\ started = 0
    /\ brAudit = "none"
    /\ brSem = "none"
    /\ chAudit = << >>
    /\ chSem = << >>
    /\ auditResp = << >>
    /\ semResp = << >>
    /\ annotatedFiles = {}
    /\ reportFiles = << >>
    /\ logs = [i \in ids |-> {}]
    /\ sent = [i \in ids |-> 0]
    /\ recv = [i \in ids |-> 0]
    /\ faults = 0
    /\ resp = NoResp
    /\ rd = NoRead

Init == InitOver(Ids)


\* ------------------------------------------------- UploadHandler (POST)
\* uuid.New(), the file is saved and the task is stored with AddTask.
UploadCreate(id) ==
    /\ upc[id] = "new"
    /\ \A j \in Ids : j < id => upc[j] # "new"
    /\ tasks' = AddTask(tasks, NewTask(id))
    /\ upc' = [upc EXCEPT ![id] = "added"]
    /\ UNCHANGED <<build, rd, chanVars, bg, ctlVars, fanVars, diskVars, envVars>>
    /\ resp' = NoResp

\* where UploadHandler goes on after `case tasks <- id:` (to the return)
AfterDirectSend_FallThrough == "full"

AfterDirectSend == "sent"

\* select { case tasks <- id: ... }: the channel has room.
UploadSend(id) ==
    /\ upc[id] = "added"
    /\ CanSend(queue, QueueCap)
    /\ queue' = ChanSend(queue, id)
    /\ sent' = [sent EXCEPT ![id] = @ + 1]
    /\ upc' = [upc EXCEPT ![id] = AfterDirectSend]
    /\ resp' = [op |-> "upload", code |-> 202, body |-> id]
    /\ UNCHANGED <<build, rd, tasks, recv, bg, ctlVars, fanVars, diskVars,
                   envVars>>

\* select takes `default:` when the send cannot proceed at once
SelectDefault_Missing(q, cap) == FALSE

SelectDefault(q, cap) == ~CanSend(q, cap)

\* select { ... default: }: the channel is full.
UploadDefault(id) ==
    /\ upc[id] = "added"
    /\ SelectDefault(queue, QueueCap)
    /\ upc' = [upc EXCEPT ![id] = "full"]
    /\ UNCHANGED <<build, rd, tasks, chanVars, bg, ctlVars, fanVars, diskVars,
                   envVars>>
    /\ resp' = NoResp

\* _ = s.UpdateTask(id, func(t) { t.Status = "Queued" })
UploadMarkQueued(id) ==
    /\ upc[id] = "full"
    /\ tasks' = UpdateTask(tasks, id, MarkQueued)
    /\ upc' = [upc EXCEPT ![id] = "marked"]
    /\ UNCHANGED <<build, rd, chanVars, bg, ctlVars, fanVars, diskVars, envVars>>
    /\ resp' = NoResp

\* where UploadHandler goes on after the go statement (to the return)
AfterSpawn_Remark == "full"

AfterSpawn == "spawned"

\* go func() { tasks <- id }(); return 202
UploadSpawn(id) ==
    /\ upc[id] = "marked"
    /\ bg' = bg \cup {id}
    /\ upc' = [upc EXCEPT ![id] = AfterSpawn]
    /\ resp' = [op |-> "upload", code |-> 202, body |-> id]
    /\ UNCHANGED <<build, rd, tasks, chanVars, ctlVars, fanVars, diskVars,
                   envVars>>

\* the background goroutine's blocking send completes
BgEnqueue(id) ==
    /\ id \in bg
    /\ CanSend(queue, QueueCap)
    /\ queue' = ChanSend(queue, id)
    /\ sent' = [sent EXCEPT ![id] = @ + 1]
    /\ bg' = bg \ {id}
    /\ UNCHANGED <<build, rd, tasks, recv, upc, ctlVars, fanVars, diskVars,
                   envVars>>
    /\ resp' = NoResp

\* the steps of UploadHandler that can fail, and those of them that return
\* before s.AddTask: c.FormFile, f.Open, os.Create, io.Copy
UploadSteps == {"FormFile", "Open", "Create", "Copy"}

FallibleBeforeAddTask_CopyAfter == {"FormFile", "Open", "Create"}

FallibleBeforeAddTask == {"FormFile", "Open", "Create", "Copy"}

\* an upload request that fails at `step`: 400 for a missing file field,
\* the returned error (500) otherwise; the client may send the request again
UploadFail(id, step) ==
    /\ upc[id] = "new"
    /\ \A j \in Ids : j < id => upc[j] # "new"
    /\ tasks' = IF step \in FallibleBeforeAddTask THEN tasks
                ELSE AddTask(tasks, NewTask(id))
    /\ resp' = IF step = "FormFile"
               THEN [op |-> "upload", code |-> 400, body |-> "file required"]
               ELSE [op |-> "upload", code |-> 500, body |-> step]
    /\ UNCHANGED <<build, rd, chanVars, uploadVars, ctlVars, fanVars,
                   diskVars, envVars>>

\* ------------------------------------------------------------- workers
\* where the worker goes on after each `continue`
ParserConnectErrorNext_FallThrough == "parse"

ParserConnectErrorNext == "idle"

ParseErrorNext_FallThrough == "dial_engine"

ParseErrorNext_Retry == "parse"

ParseErrorNext == "idle"

EngineConnectErrorNext == "idle"

InferenceConnectErrorNext == "idle"

\* the environment may still fail n more times
MayFail(n) == faults + n <= MaxFaults

Failed(id, what) ==
    /\ MayFail(1)
    /\ faults' = faults + 1
    /\ logs' = [logs EXCEPT ![id] = @ \cup {what}]

\* the worker is at the top of its loop
WorkerReady_Eager == wpc # "begin"

WorkerReady == wpc = "idle"

\* for id := range tasks
WorkerRecv ==
    /\ WorkerReady
    /\ queue # << >>
    /\ wid' = Head(queue)
    /\ queue' = Tail(queue)
    /\ recv' = [recv EXCEPT ![Head(queue)] = @ + 1]
    /\ wpc' = "begin"
    /\ UNCHANGED <<build, rd, tasks, sent, uploadVars, simP, fanVars, diskVars,
                   envVars>>
    /\ resp' = NoResp

\* simulated worker: UpdateTask(Parsing, 10), `continue` on an unknown id
SimBegin ==
    /\ build = "sim"
    /\ wpc = "begin"
    /\ tasks' = UpdateTask(tasks, wid, SimMarkParsing)
    /\ wpc' = IF HasTask(tasks, wid) THEN "sim_parse" ELSE "idle"
    /\ UNCHANGED <<build, rd, chanVars, uploadVars, wid, simP, fanVars, diskVars,
                   envVars>>
    /\ resp' = NoResp

\* time.Sleep(1s); UpdateTask(Auditing, 40); p := 50
SimParsed ==
    /\ wpc = "sim_parse"
    /\ tasks' = UpdateTask(tasks, wid, MarkAuditing)
    /\ simP' = SimFirstProgress
    /\ wpc' = "sim_audit"
    /\ UNCHANGED <<build, rd, chanVars, uploadVars, wid, fanVars, diskVars,
                   envVars>>
    /\ resp' = NoResp

\* one iteration of: for p := 50; p <= 90; p += 10 { sleep; UpdateTask }
SimAuditStep ==
    /\ wpc = "sim_audit"
    /\ simP <= SimLastProgress
    /\ tasks' = UpdateTask(tasks, wid, SetProgress(simP))
    /\ simP' = simP + SimProgressStep
    /\ UNCHANGED <<build, rd, chanVars, uploadVars, wpc, wid, fanVars, diskVars,
                   envVars>>
    /\ resp' = NoResp

\* copyFile and WriteReport: each may fail, the worker ignores both errors
WriteFiles(id, issues, canCopy) ==
    \E copyOk \in BOOLEAN, reportOk \in BOOLEAN :
        /\ MayFail((IF copyOk THEN 0 ELSE 1) + (IF reportOk THEN 0 ELSE 1))
        /\ faults' = faults + (IF copyOk THEN 0 ELSE 1)
                            + (IF reportOk THEN 0 ELSE 1)
        /\ annotatedFiles' = IF copyOk /\ canCopy
                             THEN annotatedFiles \cup {id}
                             ELSE annotatedFiles
        /\ reportFiles' = IF reportOk THEN (id :> issues) @@ reportFiles
                          ELSE reportFiles

\* loop exit, copyFile, WriteReport, UpdateTask(Completed, 100)
SimFinish ==
    /\ wpc = "sim_audit"
    /\ simP > SimLastProgress
    /\ WriteFiles(wid, << >>, HasTask(tasks, wid))
    /\ tasks' = UpdateTask(tasks, wid,
                  MarkCompleted(SimAnnotatedPath(wid), SimReportPath(wid)))
    /\ wpc' = "idle"
    /\ simP' = 0
    /\ UNCHANGED <<build, rd, chanVars, uploadVars, wid, fanVars, logs>>
    /\ resp' = NoResp


\* grpc worker: GetTask (`continue` on an unknown id), UpdateTask(Parsing, 5)
GrpcBegin ==
    /\ build = "grpc"
    /\ wpc = "begin"
    /\ tasks' = UpdateTask(tasks, wid, GrpcMarkParsing)
    /\ wpc' = IF HasTask(tasks, wid) THEN "dial_parser" ELSE "idle"
    /\ UNCHANGED <<build, rd, chanVars, uploadVars, wid, simP, fanVars, diskVars,
                   envVars>>
    /\ resp' = NoResp

\* grpc.DialContext(ctx, parserAddr, WithBlock) under the 30s context
ParserDial ==
    /\ wpc = "dial_parser"
    /\ \/ /\ wpc' = "parse"
          /\ UNCHANGED <<tasks, envVars>>
       \/ /\ Failed(wid, "failed to dial parser")
          /\ tasks' = UpdateTask(tasks, wid, MarkParserConnectError)
          /\ wpc' = ParserConnectErrorNext
    /\ UNCHANGED <<build, rd, chanVars, uploadVars, wid, simP, fanVars, diskVars>>
    /\ resp' = NoResp

\* client.ParseDocument; on success UpdateTask(Auditing, 40) and the 45s
\* context of the fan-out is created
ParseDocument ==
    /\ wpc = "parse"
    /\ \/ /\ tasks' = UpdateTask(tasks, wid, MarkAuditing)
          /\ wpc' = "dial_engine"
          /\ UNCHANGED envVars
       \/ /\ Failed(wid, "parse error")
          /\ tasks' = UpdateTask(tasks, wid, MarkParseError)
          /\ wpc' = ParseErrorNext
    /\ UNCHANGED <<build, rd, chanVars, uploadVars, wid, simP, fanVars, diskVars>>
    /\ resp' = NoResp

\* grpc.DialContext(ctx, engineAddr, WithBlock) under the 45s context
EngineDial ==
    /\ wpc = "dial_engine"
    /\ \/ /\ wpc' = "dial_inference"
          /\ UNCHANGED <<tasks, envVars, elapsed>>
       \/ /\ Failed(wid, "engine dial err")
          /\ tasks' = UpdateTask(tasks, wid, MarkEngineConnectError)
          /\ wpc' = EngineConnectErrorNext
          /\ elapsed' = 0
    /\ UNCHANGED <<build, rd, chanVars, uploadVars, wid, simP, started, brAudit,
                   brSem, chAudit, chSem, auditResp, semResp, diskVars>>
    /\ resp' = NoResp

\* grpc.DialContext(ctx, inferenceAddr, WithBlock) under the same context;
\* on success the two channels are made and the two goroutines started
InferenceDial ==
    /\ wpc = "dial_inference"
    /\ \/ /\ wpc' = "join_audit"
          /\ brAudit' = "running"
          /\ brSem' = "running"
          /\ started' = elapsed
          /\ UNCHANGED <<tasks, envVars, elapsed>>
       \/ /\ Failed(wid, "inference dial err")
          /\ tasks' = UpdateTask(tasks, wid, MarkInferenceConnectError)
          /\ wpc' = InferenceConnectErrorNext
          /\ elapsed' = 0
          /\ UNCHANGED <<brAudit, brSem, started>>
    /\ UNCHANGED <<build, rd, chanVars, uploadVars, wid, simP, chAudit, chSem,
                   auditResp, semResp, diskVars>>
    /\ resp' = NoResp

\* goroutine 1: engineClient.AuditRules under its own 25s context; exactly
\* one send on chAudit, the response or an empty AuditResponse
AuditRulesReturn ==
    /\ brAudit = "running"
    /\ CanSend(chAudit, ResultChanCap)
    /\ \/ \E r \in AuditResponses :
            /\ chAudit' = ChanSend(chAudit, r)
            /\ UNCHANGED envVars
       \/ /\ Failed(wid, "AuditRules error")
          /\ chAudit' = SendDegraded(chAudit)
    /\ brAudit' = "done"
    /\ UNCHANGED <<build, rd, tasks, chanVars, uploadVars, ctlVars, elapsed,
                   started, brSem, chSem, auditResp, semResp, diskVars>>
    /\ resp' = NoResp

\* goroutine 2: infClient.AnalyzeSemantics under its own 25s context
AnalyzeSemanticsReturn ==
    /\ brSem = "running"
    /\ CanSend(chSem, ResultChanCap)
    /\ \/ \E r \in SemResponses :
            /\ chSem' = ChanSend(chSem, r)
            /\ UNCHANGED envVars
       \/ /\ Failed(wid, "AnalyzeSemantics error")
          /\ chSem' = SendDegraded(chSem)
    /\ brSem' = "done"
    /\ UNCHANGED <<build, rd, tasks, chanVars, uploadVars, ctlVars, elapsed,
                   started, brAudit, chAudit, auditResp, semResp, diskVars>>
    /\ resp' = NoResp

\* auditResp := <-chAudit
JoinAudit ==
    /\ wpc = "join_audit"
    /\ chAudit # << >>
    /\ auditResp' = Head(chAudit)
    /\ chAudit' = Tail(chAudit)
    /\ wpc' = "join_sem"
    /\ UNCHANGED <<build, rd, tasks, chanVars, uploadVars, wid, simP, elapsed,
                   started, brAudit, brSem, chSem, semResp, diskVars, envVars>>
    /\ resp' = NoResp

\* semResp := <-chSem
JoinSem ==
    /\ wpc = "join_sem"
    /\ chSem # << >>
    /\ semResp' = Head(chSem)
    /\ chSem' = Tail(chSem)
    /\ wpc' = "finish"
    /\ UNCHANGED <<build, rd, tasks, chanVars, uploadVars, wid, simP, elapsed,
                   started, brAudit, brSem, chAudit, auditResp, diskVars,
                   envVars>>
    /\ resp' = NoResp

\* append, copyFile, WriteReport, UpdateTask(Completed, 100)
GrpcFinish ==
    /\ wpc = "finish"
    /\ WriteFiles(wid, Aggregate(auditResp, semResp), TRUE)
    /\ tasks' = UpdateTask(tasks, wid,
                  MarkCompleted(GrpcAnnotatedPath(tasks[wid].source_path),
                                GrpcReportPath(tasks[wid].source_path)))
    /\ wpc' = "idle"
    /\ elapsed' = 0
    /\ started' = 0
    /\ brAudit' = "none"
    /\ brSem' = "none"
    /\ auditResp' = << >>
    /\ semResp' = << >>
    /\ UNCHANGED <<build, rd, chanVars, uploadVars, wid, simP, chAudit, chSem,
                   logs>>
    /\ resp' = NoResp

\* the deadlines of the fan-out stage
ParentExpired == elapsed >= ParentTimeoutSec

CallDeadline == started + CallTimeoutSec

\* wall clock: a dial returns by the parent deadline, a call by its own
Tick ==
    /\ \/ /\ wpc \in {"dial_engine", "dial_inference"}
          /\ elapsed + ClockStep <= ParentTimeoutSec
       \/ /\ wpc \in {"join_audit", "join_sem"}
          /\ brAudit = "running" \/ brSem = "running"
          /\ elapsed + ClockStep <= CallDeadline
    /\ elapsed' = elapsed + ClockStep
    /\ UNCHANGED <<build, rd, tasks, chanVars, uploadVars, ctlVars, started,
                   brAudit, brSem, chAudit, chSem, auditResp, semResp,
                   diskVars, envVars>>
    /\ resp' = NoResp

\* ----------------------------------- the legacy workers (package main)
\* the worker keeps t := store.tasks[id] and writes the fields of *t under
\* store.mu; no record is replaced while the worker holds it
LegacyWrite(s, id, fn) == [s EXCEPT ![id] = Apply(fn, @)]

LegacySimParsing == [status |-> "Parsing", progress |-> 10]

LegacySimAuditing == [status |-> "Auditing", progress |-> 40]

LegacySimProgress(p) == [progress |-> p]

LegacySimCompleted(annotated, report) ==
    [annotated_path |-> annotated, report_path |-> report,
     status |-> "Completed", progress |-> 100]

LegacyGrpcParsing == [status |-> "Parsing", progress |-> 5]

LegacyParserConnectError == [status |-> "Error: parser connect"]

LegacyParseError == [status |-> "Error: parse"]

LegacyGrpcAuditing == [status |-> "Auditing", progress |-> 40]

LegacyEngineConnectError == [status |-> "Error: engine connect"]

LegacyInferenceConnectError == [status |-> "Error: inference connect"]

LegacyGrpcCompleted(annotated, report) ==
    [annotated_path |-> annotated, report_path |-> report,
     status |-> "Completed", progress |-> 100]

\* t, ok := store.tasks[id]; `continue` on an unknown id; Parsing, 10
LegacySimBegin ==
    /\ build = "sim"
    /\ wpc = "begin"
    /\ IF HasTask(tasks, wid)
       THEN /\ tasks' = LegacyWrite(tasks, wid, LegacySimParsing)
            /\ wpc' = "sim_parse"
       ELSE /\ tasks' = tasks
            /\ wpc' = "idle"
    /\ UNCHANGED <<build, rd, chanVars, uploadVars, wid, simP, fanVars, diskVars,
                   envVars>>
    /\ resp' = NoResp

\* time.Sleep(1s); Auditing, 40; p := 50
LegacySimParsed ==
    /\ wpc = "sim_parse"
    /\ tasks' = LegacyWrite(tasks, wid, LegacySimAuditing)
    /\ simP' = SimFirstProgress
    /\ wpc' = "sim_audit"
    /\ UNCHANGED <<build, rd, chanVars, uploadVars, wid, fanVars, diskVars,
                   envVars>>
    /\ resp' = NoResp

\* one iteration of: for p := 50; p <= 90; p += 10 { sleep; t.Progress = p }
LegacySimAuditStep ==
    /\ wpc = "sim_audit"
    /\ simP <= SimLastProgress
    /\ tasks' = LegacyWrite(tasks, wid, LegacySimProgress(simP))
    /\ simP' = simP + SimProgressStep
    /\ UNCHANGED <<build, rd, chanVars, uploadVars, wpc, wid, fanVars, diskVars,
                   envVars>>
    /\ resp' = NoResp

\* loop exit, the inline copy, writeReport, Completed, 100
LegacySimFinish ==
    /\ wpc = "sim_audit"
    /\ simP > SimLastProgress
    /\ WriteFiles(wid, << >>, TRUE)
    /\ tasks' = LegacyWrite(tasks, wid,
                  LegacySimCompleted(SimAnnotatedPath(wid), SimReportPath(wid)))
    /\ wpc' = "idle"
    /\ simP' = 0
    /\ UNCHANGED <<build, rd, chanVars, uploadVars, wid, fanVars, logs>>
    /\ resp' = NoResp

\* t, ok := store.tasks[id]; `continue` on an unknown id; Parsing, 5
LegacyGrpcBegin ==
    /\ build = "grpc"
    /\ wpc = "begin"
    /\ IF HasTask(tasks, wid)
       THEN /\ tasks' = LegacyWrite(tasks, wid, LegacyGrpcParsing)
            /\ wpc' = "dial_parser"
       ELSE /\ tasks' = tasks
            /\ wpc' = "idle"
    /\ UNCHANGED <<build, rd, chanVars, uploadVars, wid, simP, fanVars, diskVars,
                   envVars>>
    /\ resp' = NoResp

\* grpc.DialContext(ctx, parserAddr, WithBlock); on error the status and
\* `continue`
LegacyParserDial ==
    /\ wpc = "dial_parser"
    /\ \/ /\ wpc' = "parse"
          /\ UNCHANGED <<tasks, envVars>>
       \/ /\ Failed(wid, "failed to dial parser")
          /\ tasks' = LegacyWrite(tasks, wid, LegacyParserConnectError)
          /\ wpc' = "idle"
    /\ UNCHANGED <<build, rd, chanVars, uploadVars, wid, simP, fanVars, diskVars>>
    /\ resp' = NoResp

\* client.ParseDocument; on error the status and `continue`, else
\* Auditing, 40
LegacyParseDocument ==
    /\ wpc = "parse"
    /\ \/ /\ tasks' = LegacyWrite(tasks, wid, LegacyGrpcAuditing)
          /\ wpc' = "dial_engine"
          /\ UNCHANGED envVars
       \/ /\ Failed(wid, "parse error")
          /\ tasks' = LegacyWrite(tasks, wid, LegacyParseError)
          /\ wpc' = "idle"
    /\ UNCHANGED <<build, rd, chanVars, uploadVars, wid, simP, fanVars, diskVars>>
    /\ resp' = NoResp

\* grpc.DialContext(ctx, engineAddr, WithBlock) under the 45s context
LegacyEngineDial ==
    /\ wpc = "dial_engine"
    /\ \/ /\ wpc' = "dial_inference"
          /\ UNCHANGED <<tasks, envVars, elapsed>>
       \/ /\ Failed(wid, "engine dial err")
          /\ tasks' = LegacyWrite(tasks, wid, LegacyEngineConnectError)
          /\ wpc' = "idle"
          /\ elapsed' = 0
    /\ UNCHANGED <<build, rd, chanVars, uploadVars, wid, simP, started, brAudit,
                   brSem, chAudit, chSem, auditResp, semResp, diskVars>>
    /\ resp' = NoResp

\* grpc.DialContext(ctx, inferenceAddr, WithBlock); on success the two
\* channels are made and the two goroutines started
LegacyInferenceDial ==
    /\ wpc = "dial_inference"
    /\ \/ /\ wpc' = "join_audit"
          /\ brAudit' = "running"
          /\ brSem' = "running"
          /\ started' = elapsed
          /\ UNCHANGED <<tasks, envVars, elapsed>>
       \/ /\ Failed(wid, "inference dial err")
          /\ tasks' = LegacyWrite(tasks, wid, LegacyInferenceConnectError)
          /\ wpc' = "idle"
          /\ elapsed' = 0
          /\ UNCHANGED <<brAudit, brSem, started>>
    /\ UNCHANGED <<build, rd, chanVars, uploadVars, wid, simP, chAudit, chSem,
                   auditResp, semResp, diskVars>>
    /\ resp' = NoResp

\* append, copyFile, writeReport, then the four fields under one lock
LegacyGrpcFinish ==
    /\ wpc = "finish"
    /\ WriteFiles(wid, Aggregate(auditResp, semResp), TRUE)
    /\ tasks' = LegacyWrite(tasks, wid,
                  LegacyGrpcCompleted(GrpcAnnotatedPath(tasks[wid].source_path),
                                      GrpcReportPath(tasks[wid].source_path)))
    /\ wpc' = "idle"
    /\ elapsed' = 0
    /\ started' = 0
    /\ brAudit' = "none"
    /\ brSem' = "none"
    /\ auditResp' = << >>
    /\ semResp' = << >>
    /\ UNCHANGED <<build, rd, chanVars, uploadVars, wid, simP, chAudit, chSem,
                   logs>>
    /\ resp' = NoResp

\* ------------------------------------------------- the read-only handlers
\* GET /api/v1/tasks/:id
StatusHandler(id) ==
    /\ resp' = IF HasTask(tasks, id)
               THEN [op |-> "status", code |-> 200, body |-> tasks[id].status]
               ELSE [op |-> "status", code |-> 404, body |-> "task not found"]
    /\ UNCHANGED <<build, rd, tasks, chanVars, uploadVars, ctlVars, fanVars,
                   diskVars, envVars>>

\* if t.Status != "Completed" { return 202 }
ReportReady_Terminal(t) == IsTerminal(t.status)

ReportReady(t) == t.status = "Completed"

\* GET /api/v1/report/:id
ReportHandler(id) ==
    /\ resp' = IF ~HasTask(tasks, id)
               THEN [op |-> "report", code |-> 404, body |-> "task not found"]
               ELSE IF ~ReportReady(tasks[id])
               THEN [op |-> "report", code |-> 202, body |-> tasks[id].status]
               ELSE IF tasks[id].report_path = NoPath
               THEN [op |-> "report", code |-> 500, body |-> "report missing"]
               ELSE IF id \notin DOMAIN reportFiles
               THEN [op |-> "report", code |-> 500,
                     body |-> "cannot open report"]
               ELSE [op |-> "report", code |-> 200, body |-> "report"]
    /\ UNCHANGED <<build, rd, tasks, chanVars, uploadVars, ctlVars, fanVars,
                   diskVars, envVars>>

\* GET /api/v1/download/:id
DownloadHandler(id) ==
    /\ resp' = IF ~HasTask(tasks, id)
               THEN [op |-> "download", code |-> 404,
                     body |-> "task not found"]
               ELSE IF tasks[id].status # "Completed"
               THEN [op |-> "download", code |-> 202, body |-> "no content"]
               ELSE IF tasks[id].annotated_path # NoPath
               THEN [op |-> "download",
                     code |-> IF id \in annotatedFiles THEN 200 ELSE 404,
                     body |-> "annotated"]
               ELSE IF tasks[id].report_path # NoPath
               THEN [op |-> "download",
                     code |-> IF id \in DOMAIN reportFiles THEN 200 ELSE 404,
                     body |-> "report"]
               ELSE [op |-> "download", code |-> 500,
                     body |-> "nothing to download"]
    /\ UNCHANGED <<build, rd, tasks, chanVars, uploadVars, ctlVars, fanVars,
                   diskVars, envVars>>

\* ------------------------------- StatusHandler, one memory read at a time
\* t, ok := s.GetTask(id): the lock is released, t points at the record
StatusGet(id) ==
    /\ rd = NoRead
    /\ IF HasTask(tasks, id)
       THEN /\ rd' = [id |-> id, got |-> << >>, at |-> {}]
            /\ resp' = NoResp
       ELSE /\ rd' = rd
            /\ resp' = [op |-> "status", code |-> 404,
                        body |-> "task not found"]
    /\ UNCHANGED <<build, tasks, chanVars, uploadVars, ctlVars, fanVars,
                   diskVars, envVars>>

\* c.JSON(200, t) reads the next field of *t, without the lock; `at` keeps
\* the record as it was stored at the time of each read
StatusEncode ==
    /\ rd # NoRead
    /\ Len(rd.got) < Len(TaskFields)
    /\ rd' = [rd EXCEPT
                !.got = Append(@, tasks[rd.id][TaskFields[Len(rd.got) + 1]]),
                !.at = @ \cup {tasks[rd.id]}]
    /\ resp' = NoResp
    /\ UNCHANGED <<build, tasks, chanVars, uploadVars, ctlVars, fanVars,
                   diskVars, envVars>>

\* c.JSON writes the encoded task
StatusWrite ==
    /\ rd # NoRead
    /\ Len(rd.got) = Len(TaskFields)
    /\ resp' = [op |-> "status", code |-> 200,
                body |-> [k \in 1..Len(TaskFields) |-> rd.got[k]]]
    /\ rd' = NoRead
    /\ UNCHANGED <<build, tasks, chanVars, uploadVars, ctlVars, fanVars,
                   diskVars, envVars>>

\* ------------------------------------------- the store called directly
\* the calls of TestStoreAddGetUpdate, for every id and in every order
MarkRunning == [status |-> "Running", progress |-> 50]

AddProgress == [progress_add |-> 25]

StoreTasks == {NewTask(id) : id \in Ids}

StoreMutations == {MarkRunning, AddProgress}

\* s.AddTask(task)
StoreAdd(t) ==
    /\ tasks' = AddTask(tasks, t)
    /\ resp' = [op |-> "AddTask", code |-> 0, body |-> t]
    /\ UNCHANGED <<build, rd, chanVars, uploadVars, ctlVars, fanVars, diskVars,
                   envVars>>

\* updated := s.UpdateTask(id, fn)
StoreUpdate(id, fn) ==
    /\ (HasTask(tasks, id) /\ fn = AddProgress)
          => tasks[id].progress + AddProgress.progress_add <= 100
    /\ tasks' = UpdateTask(tasks, id, fn)
    /\ resp' = [op |-> "UpdateTask", code |-> 0,
                body |-> [id |-> id, fn |-> fn, ok |-> HasTask(tasks, id)]]
    /\ UNCHANGED <<build, rd, chanVars, uploadVars, ctlVars, fanVars, diskVars,
                   envVars>>

\* got, ok := s.GetTask(id)
StoreGet(id) ==
    /\ resp' = [op |-> "GetTask", code |-> 0,
                body |-> [id |-> id] @@ GetTask(tasks, id)]
    /\ UNCHANGED <<build, rd, tasks, chanVars, uploadVars, ctlVars, fanVars,
                   diskVars, envVars>>

\* ------------------------------------------------------- specifications
Upload ==
    \E id \in Ids :
        \/ UploadCreate(id)
        \/ UploadSend(id)
        \/ UploadDefault(id)
        \/ UploadMarkQueued(id)
        \/ UploadSpawn(id)

Background == \E id \in Ids : BgEnqueue(id)

SimWorker == SimBegin \/ SimParsed \/ SimAuditStep \/ SimFinish

GrpcWorker ==
    \/ GrpcBegin
    \/ ParserDial
    \/ ParseDocument
    \/ EngineDial
    \/ InferenceDial
    \/ AuditRulesReturn
    \/ AnalyzeSemanticsReturn
    \/ JoinAudit
    \/ JoinSem
    \/ GrpcFinish

Polls ==
    \E id \in Ids :
        \/ StatusHandler(id)
        \/ ReportHandler(id)
        \/ DownloadHandler(id)

Pipeline ==
    Upload \/ Background \/ WorkerRecv \/ SimWorker \/ GrpcWorker \/ Tick

Next == Pipeline \/ Polls

Spec == Init /\ [][Next]_vars


\* fair scheduling of the goroutines: every handler runs on, the background
\* sends and the worker are scheduled, every collaborator call returns
FairSpec ==
    /\ Init
    /\ [][Pipeline]_vars
    /\ \A id \in Ids :
         /\ WF_vars(UploadSend(id) \/ UploadDefault(id) \/ UploadMarkQueued(id)
                    \/ UploadSpawn(id))
         /\ WF_vars(BgEnqueue(id))
    /\ WF_vars(WorkerRecv)
    /\ WF_vars(SimWorker)
    /\ WF_vars(GrpcWorker)

\* the store on its own, called by one client
StoreNext ==
    \/ \E t \in StoreTasks : StoreAdd(t)
    \/ \E id \in Ids, fn \in StoreMutations : StoreUpdate(id, fn)
    \/ \E id \in Ids : StoreGet(id)

StoreSpec == Init /\ [][StoreNext]_vars

\* the pipeline polled by a StatusHandler whose reads interleave with it
StatusPoll == (\E id \in Ids : StatusGet(id)) \/ StatusEncode \/ StatusWrite

RaceSpec == Init /\ [][Pipeline \/ StatusPoll]_vars

\* one client that submits its uploads one after the other, each after the
\* 202 of the one before, and one upload more than in the other
\* specifications, so that a task can arrive while another one waits for
\* room in the channel
OrderIds == 1..(MaxTasks + 1)

SequentialUpload(id) ==
    /\ \A j \in OrderIds : j < id => upc[j] \in {"sent", "spawned"}
    /\ UploadCreate(id)

OrderUpload ==
    \E id \in OrderIds :
        \/ SequentialUpload(id)
        \/ UploadSend(id)
        \/ UploadDefault(id)
        \/ UploadMarkQueued(id)
        \/ UploadSpawn(id)

OrderBackground == \E id \in OrderIds : BgEnqueue(id)

OrderNext ==
    \/ OrderUpload
    \/ OrderBackground
    \/ WorkerRecv
    \/ SimWorker
    \/ GrpcWorker
    \/ Tick

OrderSpec == InitOver(OrderIds) /\ [][OrderNext]_vars

\* the pipeline with upload requests that fail
FailedUploads == \E id \in Ids, step \in UploadSteps : UploadFail(id, step)

IntakeSpec == Init /\ [][Pipeline \/ FailedUploads]_vars

\* the steps in which a worker writes the store, refactored and legacy
StoreWrites ==
    \/ SimBegin
    \/ SimParsed
    \/ SimAuditStep
    \/ SimFinish
    \/ GrpcBegin
    \/ ParserDial
    \/ ParseDocument
    \/ EngineDial
    \/ InferenceDial
    \/ GrpcFinish

LegacySimWorker ==
    LegacySimBegin \/ LegacySimParsed \/ LegacySimAuditStep \/ LegacySimFinish

LegacyGrpcWorker ==
    \/ LegacyGrpcBegin
    \/ LegacyParserDial
    \/ LegacyParseDocument
    \/ LegacyEngineDial
    \/ LegacyInferenceDial
    \/ LegacyGrpcFinish

LegacyStoreWrites == LegacySimWorker \/ LegacyGrpcWorker

\* the pipeline run by either pair of workers
LegacySpec == Init /\ [][Pipeline \/ LegacySimWorker \/ LegacyGrpcWorker]_vars

\* ---------------------------------------------------------------- claims
Stored == DOMAIN tasks

NoArtifacts(t) == t.annotated_path = NoPath /\ t.report_path = NoPath

\* the worker has left task id behind and is finishing another one
WorkerMovedOnFrom(id) == wid # id /\ wpc \in {"finish", "sim_audit"}

\* C1: in every step, a task that is not in a terminal status keeps or
\* raises its progress (simulated and grpc worker, uploads and polls
\* interleaved).
C1_ProgressNonDecreasing ==
    [][\A id \in Stored :
          ~IsTerminal(tasks[id].status)
              => tasks'[id].progress >= tasks[id].progress]_vars

C1_Witness ==
    \E id \in Stored, j \in Stored :
        /\ tasks[id].status = "Auditing"
        /\ tasks[id].progress >= SimLastProgress
        /\ tasks[j].status = "Queued"

\* C2: a task for which the Inference dial or the AnalyzeSemantics call
\* failed never has an Error status (it is completed with the RuleEngine
\* issues alone).
C2_InferenceFailureDegrades ==
    \A id \in Stored :
        ("inference dial err" \in logs[id]
            \/ "AnalyzeSemantics error" \in logs[id])
        => ~IsError(tasks[id].status)

\* C3: a task for which the RuleEngine dial or the AuditRules call failed
\* never has an Error status (that source contributes no issues).
C3_RuleEngineFailureDegrades ==
    \A id \in Stored :
        ("engine dial err" \in logs[id] \/ "AuditRules error" \in logs[id])
        => ~IsError(tasks[id].status)

\* C4: every step that gives a task an Error status starts from status
\* Parsing.
C4_ErrorOnlyFromParsing ==
    [][\A id \in Stored :
          (~IsError(tasks[id].status) /\ IsError(tasks'[id].status))
              => tasks[id].status = "Parsing"]_vars

\* C5: a task whose ParseDocument call failed has status "Error: parse",
\* progress <= 5 and no artifact paths, in the state after the failure and
\* in every later state.
C5_ParseFailureIsTerminal ==
    \A id \in Stored :
        "parse error" \in logs[id]
        => /\ tasks[id].status = "Error: parse"
           /\ tasks[id].progress <= 5
           /\ NoArtifacts(tasks[id])

C5_Witness ==
    \E id \in Stored :
        /\ "parse error" \in logs[id]
        /\ tasks[id].status = "Error: parse"
        /\ WorkerMovedOnFrom(id)

\* C6: a task whose Parser dial failed has the parser-connect Error status
\* ("Error: parser connect"), progress <= 5 and no artifact paths.
C6_ParserUnreachable ==
    \A id \in Stored :
        "failed to dial parser" \in logs[id]
        => /\ tasks[id].status = "Error: parser connect"
           /\ tasks[id].progress <= 5
           /\ NoArtifacts(tasks[id])

C6_Witness ==
    \E id \in Stored :
        /\ "failed to dial parser" \in logs[id]
        /\ tasks[id].status = "Error: parser connect"
        /\ wpc = "idle"
        /\ resp.op = "download" /\ resp.code = 202

\* C7: no step changes any field of a task whose status is an Error status.
C7_ErrorTaskFrozen ==
    [][\A id \in Stored :
          IsError(tasks[id].status) => tasks'[id] = tasks[id]]_vars

C7_Witness ==
    \E id \in Stored :
        /\ IsError(tasks[id].status)
        /\ WorkerMovedOnFrom(id)
        /\ upc[wid] = "spawned"
        /\ resp.op = "status" /\ resp.body = tasks[id].status

\* C8: a task that is not Completed has both paths empty, a step changes a
\* path only together with the change of status to Completed, and a
\* Completed task stays Completed (so each path is written at most once).
C8_PathsOnlyWithCompleted ==
    [][\A id \in Stored :
          /\ tasks[id].status # "Completed" => NoArtifacts(tasks[id])
          /\ tasks'[id].status # "Completed" => NoArtifacts(tasks'[id])
          /\ tasks[id].status = "Completed" => tasks'[id].status = "Completed"
          /\ (tasks'[id].annotated_path # tasks[id].annotated_path
                \/ tasks'[id].report_path # tasks[id].report_path)
             => /\ tasks[id].status # "Completed"
                /\ tasks'[id].status = "Completed"]_vars

C8_Witness ==
    \E id \in Stored, j \in Stored :
        /\ tasks[id].status = "Completed"
        /\ tasks[id].annotated_path # NoPath
        /\ tasks[id].report_path # NoPath
        /\ tasks[j].status = "Auditing"
        /\ NoArtifacts(tasks[j])

\* C9: under fair scheduling every stored task is eventually dequeued and
\* eventually has a terminal status, also when it was submitted to a full
\* queue.
C9_EveryTaskTerminates ==
    \A id \in Ids :
        HasTask(tasks, id)
            ~> (HasTask(tasks, id) /\ recv[id] >= 1
                /\ IsTerminal(tasks[id].status))

C9_Witness ==
    \E id \in Stored :
        /\ upc[id] = "spawned"
        /\ recv[id] >= 1
        /\ IsTerminal(tasks[id].status)

\* the worker is blocked in one of the two receives of the join
BlockedAtJoin ==
    \/ wpc = "join_audit" /\ chAudit = << >>
    \/ wpc = "join_sem" /\ chSem = << >>

\* C10: once the parent deadline of the fan-out has expired the worker is
\* not blocked at the join waiting for a branch that has not returned.
C10_JoinBoundedByParentDeadline == ~(ParentExpired /\ BlockedAtJoin)

\* C11: in the fan-out of a task each branch that has returned (with a
\* response or after an error) has delivered exactly one result: it is in
\* the branch's channel until the worker's receive and nowhere after it; a
\* running branch always finds room in its channel, so its send never
\* blocks; the worker aggregates only after it received one result from
\* each branch, and leaves both channels empty.
C11_OneResultPerBranch ==
    /\ brAudit = "running" => CanSend(chAudit, ResultChanCap)
    /\ brSem = "running" => CanSend(chSem, ResultChanCap)
    /\ brAudit = "done"
         => Len(chAudit) = (IF wpc = "join_audit" THEN 1 ELSE 0)
    /\ brSem = "done"
         => Len(chSem) = (IF wpc \in {"join_audit", "join_sem"} THEN 1 ELSE 0)
    /\ wpc = "finish"
         => /\ brAudit = "done" /\ brSem = "done"
            /\ chAudit = << >> /\ chSem = << >>
    /\ wpc \notin {"join_audit", "join_sem", "finish"}
         => /\ brAudit = "none" /\ brSem = "none"
            /\ chAudit = << >> /\ chSem = << >>

C11_Witness ==
    /\ wpc = "finish"
    /\ "AuditRules error" \in logs[wid]
    /\ auditResp = << >>
    /\ semResp # << >>
    /\ elapsed > 0

\* C12: no report written to disk holds two issues with the same
\* (section_id, code).
C12_NoDuplicateKeys ==
    \A id \in DOMAIN reportFiles :
        \A i, j \in 1..Len(reportFiles[id]) :
            i # j => \/ reportFiles[id][i].section_id
                          # reportFiles[id][j].section_id
                     \/ reportFiles[id][i].code # reportFiles[id][j].code

\* C13: the issues of every report written to disk are in ascending order
\* of section_id.
C13_SortedBySection ==
    \A id \in DOMAIN reportFiles :
        \A i \in 1..(Len(reportFiles[id]) - 1) :
            reportFiles[id][i].section_id <= reportFiles[id][i + 1].section_id

\* C14: of the issues reported for one (section_id, code) only the one of
\* the highest severity (INFO < MEDIUM < CRITICAL) is in the report: no
\* issue of a report is outranked by another issue of that report with the
\* same key.
C14_HigherSeverityKept ==
    LET rank == [sev \in {"INFO", "MEDIUM", "CRITICAL"} |->
                    CASE sev = "INFO" -> 1
                      [] sev = "MEDIUM" -> 2
                      [] sev = "CRITICAL" -> 3]
    IN  \A id \in DOMAIN reportFiles :
            \A i, j \in 1..Len(reportFiles[id]) :
                (/\ reportFiles[id][i].section_id
                        = reportFiles[id][j].section_id
                 /\ reportFiles[id][i].code = reportFiles[id][j].code)
                => rank[reportFiles[id][i].severity]
                       >= rank[reportFiles[id][j].severity]

\* tasks whose AnalyzeSemantics call failed or timed out
InferenceFailures == {i \in Ids : "AnalyzeSemantics error" \in logs[i]}

\* a task is Completed by the grpc worker only after its AnalyzeSemantics
\* call returned: no call has succeeded when each of them logged the error
NoInferenceSuccess ==
    \A i \in Stored :
        tasks[i].status = "Completed" => i \in InferenceFailures

\* C15: once the AnalyzeSemantics calls of BreakerThreshold tasks in a row
\* have failed (and none has succeeded since), no step starts another
\* AnalyzeSemantics call: the next task's call is short-circuited without
\* contacting the Inference service.
C15_BreakerShortCircuits ==
    [][(/\ Cardinality(InferenceFailures) >= BreakerThreshold
        /\ NoInferenceSuccess)
       => ~(brSem # "running" /\ brSem' = "running")]_vars

\* C16: an AddTask of a task whose id is already stored leaves the store
\* as it is (the existing record is not replaced).
C16_AddTaskKeepsExisting ==
    [][(resp'.op = "AddTask" /\ HasTask(tasks, resp'.body.id))
       => tasks' = tasks]_vars

\* C17: an UpdateTask(id, fn) of a stored id returns true and leaves the
\* record as one application of fn to it makes it, every other record as
\* it was; on an unknown id it returns false and the store is unchanged.
C17_UpdateTaskOnce ==
    [][resp'.op = "UpdateTask"
       => IF resp'.body.id \in Stored
          THEN /\ resp'.body.ok
               /\ DOMAIN tasks' = Stored
               /\ tasks'[resp'.body.id]
                      = Apply(resp'.body.fn, tasks[resp'.body.id])
               /\ \A j \in Stored \ {resp'.body.id} : tasks'[j] = tasks[j]
          ELSE /\ ~resp'.body.ok
               /\ tasks' = tasks]_vars

C17_Witness ==
    /\ resp.op = "UpdateTask"
    /\ resp.body.ok
    /\ resp.body.fn = AddProgress
    /\ tasks[resp.body.id].status = "Running"
    /\ tasks[resp.body.id].progress = 75
    /\ Stored # Ids

C19_StatusIsSnapshot ==
    rd.got # << >>
    => \E t \in rd.at :
           \A k \in 1..Len(rd.got) : rd.got[k] = t[TaskFields[k]]

\* C20: every id is sent on the tasks channel at most once, by the
\* handler's direct send or by its background goroutine and never by both;
\* it is in the channel at most once and the worker receives it at most
\* once.
C20_EnqueuedAtMostOnce ==
    \A id \in Ids :
        /\ sent[id] <= 1
        /\ recv[id] <= 1
        /\ upc[id] = "sent" => id \notin bg
        /\ Cardinality({k \in 1..Len(queue) : queue[k] = id}) + recv[id]
               = sent[id]

C20_Witness ==
    \E id \in Ids, j \in Ids :
        /\ upc[id] = "spawned" /\ sent[id] = 1 /\ recv[id] = 1
        /\ id \notin bg
        /\ upc[j] = "sent" /\ sent[j] = 1 /\ recv[j] = 1

\* C21: an UploadHandler that has stored its task can always take its next
\* step, whatever the queue holds: at the select it either sends or takes
\* the default branch; on the default branch it marks the task Queued,
\* starts the background send and returns. Every 202 response carries the
\* id and is written right after the send or after the go statement, and
\* a returned handler has left its id in the channel or with its
\* background goroutine.
C21_UploadNeverBlocks ==
    /\ \A id \in Ids :
        /\ upc[id] = "added"
             => ENABLED (UploadSend(id) \/ UploadDefault(id))
        /\ upc[id] = "full" => ENABLED UploadMarkQueued(id)
        /\ upc[id] = "marked"
             => /\ ENABLED UploadSpawn(id)
                /\ tasks[id].status = "Queued"
        /\ upc[id] = "spawned"
             => /\ id \in bg \/ sent[id] = 1
                /\ tasks[id].status # "Pending"
    /\ (resp.op = "upload" /\ resp.code = 202)
         => upc[resp.body] \in {"sent", "spawned"}

C21_Witness ==
    \E id \in Ids :
        /\ resp.op = "upload" /\ resp.body = id
        /\ upc[id] = "spawned"
        /\ id \in bg
        /\ ~CanSend(queue, QueueCap)
        /\ tasks[id].status = "Queued"

\* C22: the worker receives the ids in the order of submission: when the
\* uploads are made one after the other, no task has been received by the
\* worker while a task submitted before it has not.
C22_FifoDispatch ==
    \A a \in OrderIds, b \in OrderIds :
        (a < b /\ recv[b] >= 1) => recv[a] >= 1

\* C23: a task enters Auditing only from Parsing, Annotating only from
\* Auditing and Completed only from Annotating, so that every Completed
\* task has had the statuses Parsing, Auditing and Annotating in that
\* order.
C23_StatusSequence ==
    [][\A id \in Stored :
          tasks'[id].status # tasks[id].status
          => /\ tasks'[id].status = "Auditing"
                  => tasks[id].status = "Parsing"
             /\ tasks'[id].status = "Annotating"
                  => tasks[id].status = "Auditing"
             /\ tasks'[id].status = "Completed"
                  => tasks[id].status = "Annotating"]_vars

\* C24: in every state a task with status Parsing has progress 5, in the
\* simulated build and in the grpc build.
C24_ParsingProgress ==
    \A id \in Stored : tasks[id].status = "Parsing" => tasks[id].progress = 5

\* C25: a task has an annotated_path only if its annotated copy was
\* produced: the file of every non-empty annotated_path is on disk.
C25_AnnotatedPathOnlyIfCopied ==
    \A id \in Stored :
        tasks[id].annotated_path # NoPath => id \in annotatedFiles

\* C26: the worker is at the parse stage (parser dial or ParseDocument call)
\* only for a task it has received once, whose status is Parsing and for
\* which no parser dial and no ParseDocument call has failed; a task with
\* such a failure is neither in the channel nor with a background goroutine
\* nor in the hands of the worker again.
C26_ParseNotRetried ==
    LET parseFailures == {"failed to dial parser", "parse error"}
    IN  /\ wpc \in {"dial_parser", "parse"}
             => /\ recv[wid] = 1
                /\ tasks[wid].status = "Parsing"
                /\ logs[wid] \cap parseFailures = {}
        /\ \A id \in Ids :
               logs[id] \cap parseFailures # {}
               => /\ id \notin bg
                  /\ \A k \in 1..Len(queue) : queue[k] # id
                  /\ sent[id] = 1 /\ recv[id] = 1
                  /\ wid = id => wpc = "idle"

C26_Witness ==
    \E id \in Stored :
        /\ "parse error" \in logs[id]
        /\ wid # id
        /\ wpc = "parse"
        /\ recv[id] = 1

\* C27: a ReportHandler call answers 404 exactly when the id is not stored,
\* 202 with the task's status for every stored task that is not Completed
\* (Pending, Queued, Parsing, Auditing and the Error statuses alike), and
\* 200 with a report only for a Completed task.
C27_ReportReadiness ==
    [][\A id \in Ids :
          ReportHandler(id)
          => /\ resp'.code = 404 <=> id \notin Stored
             /\ (id \in Stored /\ tasks[id].status # "Completed")
                  => (resp'.code = 202 /\ resp'.body = tasks[id].status)
             /\ resp'.code = 200
                  => (id \in Stored /\ tasks[id].status = "Completed")]_vars

C27_Witness ==
    /\ resp.op = "report"
    /\ resp.code = 202
    /\ IsError(resp.body)
    /\ \E id \in Stored : tasks[id].status = "Queued"

C29_OneTaskAtATime ==
    /\ \A id \in Stored :
           (recv[id] >= 1 /\ ~IsTerminal(tasks[id].status))
           => (wid = id /\ wpc # "idle")
    /\ Cardinality({id \in Stored :
                       tasks[id].status \in {"Parsing", "Auditing"}}) <= 1

C29_Witness ==
    \E id \in Stored, j \in Stored :
        /\ IsTerminal(tasks[id].status)
        /\ recv[j] = 1
        /\ tasks[j].status = "Auditing"
        /\ wid = j

\* C30: Queued is written only before the id is handed over: the handler
\* step that writes Queued can be taken only while the id has not been sent
\* and is not with a background goroutine, and a task the worker has
\* started on (it has written Parsing or a later status) never has the
\* status Queued again.
C30_QueuedOnlyBeforeHandOver ==
    \A id \in Stored :
        /\ ENABLED UploadMarkQueued(id)
             => /\ sent[id] = 0 /\ recv[id] = 0 /\ id \notin bg
                /\ tasks[id].status = "Pending"
        /\ tasks[id].status = "Queued"
             => (recv[id] = 0 \/ (wid = id /\ wpc = "begin"))

C30_Witness ==
    \E id \in Stored :
        /\ upc[id] = "spawned"
        /\ recv[id] = 1
        /\ wid = id
        /\ tasks[id].status = "Parsing"

\* C31: every Completed task has a report_path and the report it names was
\* written, and no ReportHandler response is "report missing" or "cannot
\* open report".
C31_CompletedHasReport ==
    /\ \A id \in Stored :
           tasks[id].status = "Completed"
           => /\ tasks[id].report_path # NoPath
              /\ id \in DOMAIN reportFiles
    /\ resp.op = "report"
         => resp.body \notin {"report missing", "cannot open report"}

\* C32: in every state a task has progress 100 exactly when its status is
\* Completed.
C32_FullProgressIffCompleted ==
    \A id \in Stored :
        tasks[id].progress = 100 <=> tasks[id].status = "Completed"

C32_Witness ==
    \E id \in Stored, j \in Stored :
        /\ tasks[id].status = "Completed" /\ tasks[id].progress = 100
        /\ tasks[j].status = "Auditing"
        /\ tasks[j].progress = SimLastProgress

\* C33: an upload request that fails (400 or 500) leaves the store, the
\* channel and the background sends as they were: it creates no task and
\* enqueues nothing.
C33_FailedUploadChangesNothing ==
    [][(resp'.op = "upload" /\ resp'.code # 202)
       => /\ tasks' = tasks
          /\ queue' = queue
          /\ sent' = sent
          /\ bg' = bg]_vars

C33_Witness ==
    /\ resp.op = "upload"
    /\ resp.code = 500
    /\ resp.body = "Copy"
    /\ Cardinality(Stored) = 1
    /\ \E id \in Stored : tasks[id].status = "Auditing"

\* C34: the refactored workers and the legacy workers are equivalent: from
\* every state and for every collaborator outcome, a step of a refactored
\* worker is a step of the legacy worker and the other way round, so both
\* write the same sequence of (status, progress, annotated_path,
\* report_path) values to the stored record.
C34_SameStoreWrites == [][StoreWrites <=> LegacyStoreWrites]_vars

C34_Witness ==
    /\ build = "grpc"
    /\ \E id \in Stored, j \in Stored :
           /\ tasks[id].status = "Completed"
           /\ tasks[id].report_path = GrpcReportPath(tasks[id].source_path)
           /\ tasks[j].status = "Error: inference connect"
           /\ tasks[j].progress = 40

====
